---------------------------- MODULE Spec2Model ----------------------------
(***************************************************************************)
(* A model of scripts/read_data.py (class DataProcessor): per-file schema  *)
(* validation, the directory loader, the referential filter of claims      *)
(* against pharmacies, the three analyses and the run() pipeline.          *)
(*                                                                         *)
(* A DataFrame is a record [kind, columns, index, rows]: `index' holds the *)
(* row labels and rows[i] is the row labelled index[i], a function from    *)
(* the columns to cells.  A cell is a pair <<tag, n>>: an int n, a float   *)
(* n.0, the string whose text is the decimal n ("str"), the string whose   *)
(* text is n followed by ".0" ("strf"), or NaN.                            *)
(***************************************************************************)
EXTENDS Integers, Sequences, FiniteSets, TLC

VARIABLES
    pc,                  \* position of the caller
    folder,              \* arguments of the running process_folder call
    listing,             \* files os.listdir still has to yield
    loaded,              \* the file and return value of the last load_and_validate_* call
    valid_dataframes,    \* process_folder's list of valid frames
    invalid_dataframes,  \* process_folder's list of invalid frames
    fs,                  \* the files written: path -> the successive contents written
    dirs,                \* the three input directories
    company_data,        \* tables held by the caller of the analyses
    claims_data,
    revert_data,
    invalid_claims,      \* the orphaned claims of process_datasets
    calls,               \* per analysis: the arguments it was called with and what it returned
    error                \* the exception that ended the run, or "none"

vars == <<pc, folder, listing, loaded, valid_dataframes, invalid_dataframes, fs,
          dirs, company_data, claims_data, revert_data, invalid_claims, calls, error>>

---------------------------------------------------------------------------
(* Cells *)

NaN == <<"nan", 0>>
Int_(n) == <<"int", n>>
Float_(n) == <<"float", n>>
Str_(n) == <<"str", n>>

isna(c) == c[1] = "nan"

\* Series.astype(str) on one cell: str(123) = "123", str(123.0) = "123.0"
AsStr(c) ==
    CASE c[1] = "int" -> <<"str", c[2]>>
      [] c[1] = "float" -> <<"strf", c[2]>>
      [] c[1] = "nan" -> <<"strnan", 0>>
      [] OTHER -> c

\* Series.astype(float) on one numeric cell
AsFloat(c) ==
    CASE c[1] = "int" -> <<"float", c[2]>>
      [] OTHER -> c

---------------------------------------------------------------------------
(* DataFrames *)

None == [kind |-> "None"]

DataFrame(cols, idx, rws) ==
    [kind |-> "DataFrame", columns |-> cols, index |-> idx, rows |-> rws]

\* pd.DataFrame(): no columns, no rows
EmptyDataFrame == DataFrame({}, <<>>, <<>>)

RangeIndex(n) == [i \in 1..n |-> i - 1]

\* A freshly parsed table: rows labelled 0..n-1
Parsed(cols, rws) == DataFrame(cols, RangeIndex(Len(rws)), rws)

RECURSIVE SelectPositions(_, _, _)
\* the positions i..Len of frame `data' whose row satisfies keep[i], in order
SelectPositions(keep, i, n) ==
    IF i > n THEN <<>>
    ELSE (IF keep[i] THEN <<i>> ELSE <<>>) \o SelectPositions(keep, i + 1, n)

\* data[mask]: the rows whose mask is true, labels kept
BoolIndex(data, mask) ==
    LET pos == SelectPositions(mask, 1, Len(data.rows))
    IN  DataFrame(data.columns,
                  [k \in 1..Len(pos) |-> data.index[pos[k]]],
                  [k \in 1..Len(pos) |-> data.rows[pos[k]]])

\* a faulty variant of dropna: a row is kept as soon as one field of the subset is non-null
dropna_any(data, subset) ==
    BoolIndex(data, [i \in 1..Len(data.rows) |->
                        (subset = {}) \/ (\E c \in subset : ~isna(data.rows[i][c]))])

\* data.dropna(subset=...): the rows with no null in the subset's columns
dropna(data, subset) ==
    BoolIndex(data, [i \in 1..Len(data.rows) |->
                        \A c \in subset : ~isna(data.rows[i][c])])

IndexSet(data) == {data.index[i] : i \in 1..Len(data.index)}

\* data[~data.index.isin(other.index)]
NotInIndex(data, other) ==
    BoolIndex(data, [i \in 1..Len(data.rows) |-> data.index[i] \notin IndexSet(other)])

\* required_columns.issubset(data.columns)
SchemaOk(data, required_columns) == required_columns \subseteq data.columns

\* the try body shared by load_and_validate_csv and load_and_validate_json, after parsing
Validate(data, required_columns) ==
    IF ~SchemaOk(data, required_columns)
    THEN <<None, data>>
    ELSE LET valid_data == dropna(data, required_columns)
             invalid_data == NotInIndex(data, valid_data)
         IN  <<valid_data, invalid_data>>

\* A file of a directory: its extension and what the reader makes of it
ParseError == [kind |-> "ParseError"]

File(ext, content) == [ext |-> ext, content |-> content]

load_and_validate_csv(file, required_columns) ==
    IF file.content.kind = "ParseError"
    THEN <<None, None>>
    ELSE Validate(file.content, required_columns)

load_and_validate_json(file, required_columns) ==
    IF file.content.kind = "ParseError"
    THEN <<None, None>>
    ELSE Validate(file.content, required_columns)

---------------------------------------------------------------------------
(* pd.concat(frames, ignore_index=True) *)

RECURSIVE UnionColumns(_)
UnionColumns(frames) ==
    IF frames = <<>> THEN {}
    ELSE Head(frames).columns \cup UnionColumns(Tail(frames))

Pad(row, have, cols) == [c \in cols |-> IF c \in have THEN row[c] ELSE NaN]

RECURSIVE ConcatRows(_, _)
ConcatRows(frames, cols) ==
    IF frames = <<>> THEN <<>>
    ELSE LET f == Head(frames)
         IN  [i \in 1..Len(f.rows) |-> Pad(f.rows[i], f.columns, cols)]
               \o ConcatRows(Tail(frames), cols)

\* the result dtype of a column: an integer column joined with floats or with
\* missing values becomes a float column
Upcast(rws, cols) ==
    LET numeric(c) == \A i \in 1..Len(rws) : rws[i][c][1] \in {"int", "float", "nan"}
        hasFloat(c) == \E i \in 1..Len(rws) : rws[i][c][1] \in {"float", "nan"}
    IN  [i \in 1..Len(rws) |->
            [c \in cols |-> IF numeric(c) /\ hasFloat(c) THEN AsFloat(rws[i][c])
                            ELSE rws[i][c]]]

Concat(frames) ==
    LET cols == UnionColumns(frames)
        rws == Upcast(ConcatRows(frames, cols), cols)
    IN  Parsed(cols, rws)

---------------------------------------------------------------------------
(* save_file and the paths it is given *)

Path(dir, name, ext) == [dir |-> dir, name |-> name, ext |-> ext]

InvalidCompanyFile == Path(<<>>, "invalid_company", "csv")
InvalidClaimsFile == Path(<<>>, "invalid_claims", "json")
InvalidRollbackFile == Path(<<"data", "invalid_records">>, "invalid_rollback", "json")
\* os.path.join(self.invalid_records_dir, "invalid_claims.json")
InvalidClaimsPath == Path(<<"base_path", "invalid_records">>, "invalid_claims", "json")
AnalysisResultFile == Path(<<"results">>, "analysis_result", "json")
TopQuantitiesFile == Path(<<"results">>, "top_prescribed_quantities", "json")
TopChainsFile == Path(<<"results">>, "top_chains", "json")

Paths == {InvalidCompanyFile, InvalidClaimsFile, InvalidRollbackFile, InvalidClaimsPath,
          AnalysisResultFile, TopQuantitiesFile, TopChainsFile}

\* nothing written yet
NoFiles == [p \in Paths |-> <<>>]

\* a Python list handed to save_file
List(items) == [kind |-> "list", items |-> items]

\* save_file: the successive contents of each path after the call.
\* os.makedirs("") raises for a path with no directory part and the except
\* clause swallows it; json.dump raises for a DataFrame after open(.., "w")
\* has truncated the file.
save_file(files, data, file_path) ==
    IF data.kind = "None" THEN files
    ELSE IF file_path.dir = <<>> THEN files
    ELSE IF file_path.ext = "csv" THEN [files EXCEPT ![file_path] = Append(@, data.rows)]
    ELSE IF file_path.ext = "json"
         THEN IF data.kind = "list"
              THEN [files EXCEPT ![file_path] = Append(@, data.items)]
              ELSE [files EXCEPT ![file_path] = Append(@, <<>>)]
    ELSE files

---------------------------------------------------------------------------
(* process_folder *)

\* the three calls process_datasets makes
PharmaciesFolder ==
    [name |-> "pharmacies", required_columns |-> {"chain", "npi"},
     file_type |-> "csv", invalid_file_name |-> InvalidCompanyFile]

ClaimsFolder ==
    [name |-> "claims",
     required_columns |-> {"id", "ndc", "npi", "quantity", "price", "timestamp"},
     file_type |-> "json", invalid_file_name |-> InvalidClaimsFile]

RevertsFolder ==
    [name |-> "reverts", required_columns |-> {"id", "claim_id", "timestamp"},
     file_type |-> "json", invalid_file_name |-> InvalidRollbackFile]

Folders == {PharmaciesFolder, ClaimsFolder, RevertsFolder}

NotLoaded == [file |-> File("none", ParseError), skipped |-> TRUE, ret |-> <<None, None>>]

\* a faulty variant of the loop body: a rejected file's frame is not kept
LoadStep_drop(file, f, vd, ivd) ==
    IF file.ext # f.file_type
    THEN [loaded |-> [file |-> file, skipped |-> TRUE, ret |-> <<None, None>>],
          valid_dataframes |-> vd, invalid_dataframes |-> ivd]
    ELSE LET ret == IF f.file_type = "csv"
                    THEN load_and_validate_csv(file, f.required_columns)
                    ELSE load_and_validate_json(file, f.required_columns)
         IN  [loaded |-> [file |-> file, skipped |-> FALSE, ret |-> ret],
              valid_dataframes |->
                  IF ret[1].kind # "None" THEN Append(vd, ret[1]) ELSE vd,
              invalid_dataframes |->
                  IF ret[2].kind # "None" /\ ret[1].kind # "None"
                  THEN Append(ivd, ret[2]) ELSE ivd]

\* one iteration of the for loop over os.listdir(folder_path)
LoadStep(file, f, vd, ivd) ==
    IF file.ext # f.file_type
    THEN [loaded |-> [file |-> file, skipped |-> TRUE, ret |-> <<None, None>>],
          valid_dataframes |-> vd, invalid_dataframes |-> ivd]
    ELSE LET ret == IF f.file_type = "csv"
                    THEN load_and_validate_csv(file, f.required_columns)
                    ELSE load_and_validate_json(file, f.required_columns)
         IN  [loaded |-> [file |-> file, skipped |-> FALSE, ret |-> ret],
              valid_dataframes |->
                  IF ret[1].kind # "None" THEN Append(vd, ret[1]) ELSE vd,
              invalid_dataframes |->
                  IF ret[2].kind # "None" THEN Append(ivd, ret[2]) ELSE ivd]

\* the statements after the loop: the two tables
Combine(frames) == IF frames # <<>> THEN Concat(frames) ELSE EmptyDataFrame

RECURSIVE LoadAll(_, _, _, _)
\* the whole loop over `files'
LoadAll(files, f, vd, ivd) ==
    IF files = <<>> THEN [valid_dataframes |-> vd, invalid_dataframes |-> ivd]
    ELSE LET s == LoadStep(Head(files), f, vd, ivd)
         IN  LoadAll(Tail(files), f, s.valid_dataframes, s.invalid_dataframes)

\* process_folder as one call: the table returned, the table handed to save_file
\* and the files after the call
process_folder(files, f, written) ==
    LET s == LoadAll(files, f, <<>>, <<>>)
        invalid_data == Combine(s.invalid_dataframes)
    IN  [valid_data |-> Combine(s.valid_dataframes),
         invalid_data |-> invalid_data,
         fs |-> save_file(written, invalid_data, f.invalid_file_name)]

---------------------------------------------------------------------------
(* Helpers of the analyses: ordering of keys, sums, means, ranking *)

\* most_common(4) and head(2)
TopQuantitiesN == 4
TopChainsN == 2

TagRank(t) ==
    CASE t = "int" -> 1 [] t = "float" -> 2 [] t = "str" -> 3 [] t = "strf" -> 4
      [] OTHER -> 5

\* the order groupby sorts the values of a key column in (strings of one
\* digit, so that the order of the texts is the order of the numbers)
CellLess(a, b) ==
    \/ TagRank(a[1]) < TagRank(b[1])
    \/ a[1] = b[1] /\ a[2] < b[2]

\* lexicographic order of two keys of the same length
RECURSIVE KeyLess(_, _)
KeyLess(k, l) ==
    IF k = <<>> THEN FALSE
    ELSE \/ CellLess(Head(k), Head(l))
         \/ Head(k) = Head(l) /\ KeyLess(Tail(k), Tail(l))

RECURSIVE SortedKeys(_)
\* the keys of a groupby, ascending
SortedKeys(S) ==
    IF S = {} THEN <<>>
    ELSE LET m == CHOOSE x \in S : \A y \in S \ {x} : KeyLess(x, y)
         IN  <<m>> \o SortedKeys(S \ {m})

RECURSIVE SumNum(_)
\* the sum of the numbers of a sequence of numeric cells
SumNum(cells) == IF cells = <<>> THEN 0 ELSE Head(cells)[2] + SumNum(Tail(cells))

\* Series.sum(): an integer for integer cells, a float as soon as one is a float
SumCells(cells) ==
    IF \E i \in 1..Len(cells) : cells[i][1] = "float"
    THEN Float_(SumNum(cells)) ELSE Int_(SumNum(cells))

RECURSIVE Gcd(_, _)
Gcd(a, b) == IF b = 0 THEN a ELSE Gcd(b, a % b)

\* the number n/d, in lowest terms
Ratio(n, d) == LET g == Gcd(n, d) IN IF g = 0 THEN <<n, d>> ELSE <<n \div g, d \div g>>

\* a faulty variant of Mean: the first value stands for the mean
Mean_first(cells) == Ratio(Head(cells)[2], 1)

\* Series.mean() of a non-empty sequence of numeric cells
Mean(cells) == Ratio(SumNum(cells), Len(cells))

RatioGreater(a, b) == a[1] * b[2] > b[1] * a[2]

Remove(s, k) == SubSeq(s, 1, k - 1) \o SubSeq(s, k + 1, Len(s))

RECURSIVE StableSortDesc(_)
\* a sequence of records with a weight w, by descending weight, records of
\* equal weight keeping their order
StableSortDesc(s) ==
    IF s = <<>> THEN <<>>
    ELSE LET k == CHOOSE k \in 1..Len(s) :
                      /\ \A j \in 1..Len(s) : ~RatioGreater(s[j].w, s[k].w)
                      /\ \A j \in 1..(k - 1) : RatioGreater(s[k].w, s[j].w)
         IN  <<s[k]>> \o StableSortDesc(Remove(s, k))

Take(s, n) == SubSeq(s, 1, IF Len(s) < n THEN Len(s) ELSE n)

RECURSIVE FirstOccurrences(_)
\* the distinct elements of a sequence in the order they first occur
FirstOccurrences(s) ==
    IF s = <<>> THEN <<>>
    ELSE LET init == FirstOccurrences(SubSeq(s, 1, Len(s) - 1))
             x == s[Len(s)]
         IN  IF \E i \in 1..Len(init) : init[i] = x THEN init ELSE Append(init, x)

Count(s, x) == Cardinality({i \in 1..Len(s) : s[i] = x})

\* the rows of a table satisfying a test, as their positions in order
Positions(rws, Test(_)) == SelectPositions([i \in 1..Len(rws) |-> Test(rws[i])], 1, Len(rws))

\* data[col] = data[col].astype(...) for every column of `cols' the table has
SetColumns(data, cols, Conv(_)) ==
    [data EXCEPT !.rows = [i \in 1..Len(data.rows) |->
        [c \in data.columns |-> IF c \in cols THEN Conv(data.rows[i][c])
                                ELSE data.rows[i][c]]]]

\* what a call gives back: the exception raised or the value returned
Raised(e) == [error |-> e, ret |-> <<>>]
Returns(v) == [error |-> "none", ret |-> v]

---------------------------------------------------------------------------
(* perform_analysis *)

RECURSIVE Flatten(_)
Flatten(ss) == IF ss = <<>> THEN <<>> ELSE Head(ss) \o Flatten(Tail(ss))

\* a row of the merge: the claim's columns, and the reversal's columns with the
\* names shared with the claim suffixed
Joined(c, r) ==
    [id |-> c.id, ndc |-> c.ndc, npi |-> c.npi, quantity |-> c.quantity,
     price |-> c.price, timestamp |-> c.timestamp,
     id_rollback |-> r.id, claim_id |-> r.claim_id, timestamp_rollback |-> r.timestamp]

NoRollback == [id |-> NaN, claim_id |-> NaN, timestamp |-> NaN]

\* claims_tbl.merge(rollbacks_data, left_on="id", right_on="claim_id", how="left"):
\* per claim, in order, one row per reversal of it, or one row without reversal
LeftMerge(claims, rollbacks) ==
    Flatten([i \in 1..Len(claims.rows) |->
        LET c == claims.rows[i]
            m == SelectPositions([j \in 1..Len(rollbacks.rows) |->
                                     rollbacks.rows[j].claim_id = c.id],
                                 1, Len(rollbacks.rows))
        IN  IF m = <<>> THEN <<Joined(c, NoRollback)>>
            ELSE [k \in 1..Len(m) |-> Joined(c, rollbacks.rows[m[k]])]])

\* the rows of `rws' whose key columns `by' have the values `key'
Group(rws, by, key) ==
    LET pos == SelectPositions([i \in 1..Len(rws) |->
                                   \A k \in 1..Len(by) : rws[i][by[k]] = key[k]],
                               1, Len(rws))
    IN  [k \in 1..Len(pos) |-> rws[pos[k]]]

\* the keys of groupby(by): rows with a null key are left out
GroupKeys(rws, by) ==
    {[k \in 1..Len(by) |-> rws[i][by[k]]] :
        i \in {j \in 1..Len(rws) : \A k \in 1..Len(by) : ~isna(rws[j][by[k]])}}

Column(rws, c) == [i \in 1..Len(rws) |-> rws[i][c]]

\* price * quantity of one row
Times(p, q) ==
    IF p[1] = "float" \/ q[1] = "float" THEN Float_(p[2] * q[2]) ELSE Int_(p[2] * q[2])

AggregateRow(key, g) ==
    [npi |-> key[1], ndc |-> key[2],
     fills |-> SumCells(Column(g, "quantity")),
     reverted |-> Cardinality({i \in 1..Len(g) : ~isna(g[i].claim_id)}),
     avg_price |-> Mean(Column(g, "price")),
     total_price |-> SumCells([i \in 1..Len(g) |-> Times(g[i].price, g[i].quantity)])]

ClaimColumns == {"id", "ndc", "npi", "quantity", "price", "timestamp"}

\* perform_analysis: an empty list for a missing input, KeyError for a table
\* without the columns the merge and the groupby name, else the list of rows
perform_analysis_rows(pharmacy_data, claims_tbl, rollbacks_data) ==
    IF claims_tbl.kind = "None" \/ rollbacks_data.kind = "None"
          \/ pharmacy_data.kind = "None"
    THEN Returns(<<>>)
    ELSE IF ~({"id", "npi", "ndc", "quantity", "price"} \subseteq claims_tbl.columns)
            \/ "claim_id" \notin rollbacks_data.columns
    THEN Raised("KeyError")
    ELSE LET combined_data ==
                 LeftMerge([claims_tbl EXCEPT !.rows =
                               [i \in 1..Len(claims_tbl.rows) |->
                                   Pad(claims_tbl.rows[i], claims_tbl.columns,
                                       ClaimColumns)]],
                           [rollbacks_data EXCEPT !.rows =
                               [i \in 1..Len(rollbacks_data.rows) |->
                                   Pad(rollbacks_data.rows[i], rollbacks_data.columns,
                                       {"id", "claim_id", "timestamp"})]])
             keys == SortedKeys(GroupKeys(combined_data, <<"npi", "ndc">>))
         IN  Returns([k \in 1..Len(keys) |->
                 AggregateRow(keys[k], Group(combined_data, <<"npi", "ndc">>, keys[k]))])

\* perform_analysis with its save_file call: the outcome and the files after it
perform_analysis(pharmacy_data, claims_tbl, rollbacks_data, written) ==
    LET out == perform_analysis_rows(pharmacy_data, claims_tbl, rollbacks_data)
        missing == claims_tbl.kind = "None" \/ rollbacks_data.kind = "None"
                      \/ pharmacy_data.kind = "None"
    IN  [out |-> out,
         fs |-> IF out.error = "none" /\ ~missing
                THEN save_file(written, List(out.ret), AnalysisResultFile)
                ELSE written]

---------------------------------------------------------------------------
(* calculate_top_prescribed_quantities *)


\* a faulty variant of most_common: ties come out in the opposite order
MostCommon_last(quantities, n) ==
    LET distinct == FirstOccurrences(quantities)
        rev == [i \in 1..Len(distinct) |-> distinct[Len(distinct) + 1 - i]]
        ranked == StableSortDesc([i \in 1..Len(rev) |->
                      [item |-> rev[i], w |-> <<Count(quantities, rev[i]), 1>>]])
    IN  [i \in 1..Len(Take(ranked, n)) |-> ranked[i].item]

\* Counter(quantities).most_common(4): by descending count, quantities of equal
\* count in the order they were first seen
MostCommon(quantities, n) ==
    LET distinct == FirstOccurrences(quantities)
        ranked == StableSortDesc([i \in 1..Len(distinct) |->
                      [item |-> distinct[i], w |-> <<Count(quantities, distinct[i]), 1>>]])
    IN  [i \in 1..Len(Take(ranked, n)) |-> ranked[i].item]

\* the claims table after lines 209-210
TopQuantitiesCoerced(claims_tbl) ==
    SetColumns(SetColumns(claims_tbl, {"npi"}, AsStr), {"quantity"}, AsFloat)

\* calculate_top_prescribed_quantities up to its save_file call: the claims
\* table as the call leaves it and the outcome
top_prescribed_quantities(claims_tbl) ==
    IF ~({"npi", "quantity"} \subseteq claims_tbl.columns)
    THEN [claims_data |-> claims_tbl, out |-> Raised("KeyError")]
    ELSE LET coerced == TopQuantitiesCoerced(claims_tbl)
             keys == SortedKeys(GroupKeys(coerced.rows, <<"npi">>))
         IN  [claims_data |-> coerced,
              out |-> Returns([k \in 1..Len(keys) |->
                  [id |-> keys[k][1],
                   most_prescribed_quantity |->
                       MostCommon(Column(Group(coerced.rows, <<"npi">>, keys[k]),
                                         "quantity"),
                                  TopQuantitiesN)]])]

calculate_top_prescribed_quantities(claims_tbl, written) ==
    LET r == top_prescribed_quantities(claims_tbl)
    IN  [claims_data |-> r.claims_data, out |-> r.out,
         fs |-> IF r.out.error = "none"
                THEN save_file(written, List(r.out.ret), TopQuantitiesFile)
                ELSE written]

---------------------------------------------------------------------------
(* calculate_top_chains *)

\* claims_tbl.merge(pharmacy_data[["npi", "chain"]], on="npi", how="inner")
InnerMerge(claims, pharmacy) ==
    Flatten([i \in 1..Len(claims.rows) |->
        LET c == claims.rows[i]
            m == SelectPositions([j \in 1..Len(pharmacy.rows) |->
                                     pharmacy.rows[j].npi = c.npi],
                                 1, Len(pharmacy.rows))
        IN  [k \in 1..Len(m) |->
                [ndc |-> c.ndc, npi |-> c.npi, price |-> c.price,
                 chain |-> pharmacy.rows[m[k]].chain]]])

\* sort_values(by=["ndc", "avg_price"], ascending=[True, False]) within one ndc
RankChains(grouped) == StableSortDesc(grouped)

\* the top chains of one ndc: the (ndc, chain) groups in chain order, ranked,
\* the first two kept
TopChainsOf(merged, ndc) ==
    LET keys == SortedKeys({k \in GroupKeys(merged, <<"ndc", "chain">>) : k[1] = ndc})
        grouped == [k \in 1..Len(keys) |->
                       [name |-> keys[k][2],
                        w |-> Mean(Column(Group(merged, <<"ndc", "chain">>, keys[k]),
                                          "price"))]]
        top == Take(RankChains(grouped), TopChainsN)
    IN  [ndc |-> ndc,
         chain |-> [k \in 1..Len(top) |-> [name |-> top[k].name, avg_price |-> top[k].w]]]

\* calculate_top_chains up to its save_file call: the two tables as the call
\* leaves them and the outcome.  For no (ndc, chain) group at all,
\* groupby("ndc").apply gives an empty DataFrame, which has no tolist.
top_chains(pharmacy_data, claims_tbl) ==
    IF "npi" \notin pharmacy_data.columns
    THEN [pharmacy_data |-> pharmacy_data, claims_data |-> claims_tbl,
          out |-> Raised("KeyError")]
    ELSE LET pharmacy == SetColumns(pharmacy_data, {"npi"}, AsStr)
         IN  IF "npi" \notin claims_tbl.columns
             THEN [pharmacy_data |-> pharmacy, claims_data |-> claims_tbl,
                   out |-> Raised("KeyError")]
             ELSE LET claims_npi == SetColumns(claims_tbl, {"npi"}, AsStr)
                  IN  IF "ndc" \notin claims_tbl.columns
                      THEN [pharmacy_data |-> pharmacy, claims_data |-> claims_npi,
                            out |-> Raised("KeyError")]
                      ELSE LET claims == SetColumns(claims_npi, {"ndc"}, AsStr)
                           IN  IF "chain" \notin pharmacy.columns
                                     \/ "price" \notin claims.columns
                               THEN [pharmacy_data |-> pharmacy, claims_data |-> claims,
                                     out |-> Raised("KeyError")]
                               ELSE LET merged == InnerMerge(claims, pharmacy)
                                        ndcs == SortedKeys({<<k[1]>> : k \in
                                                   GroupKeys(merged, <<"ndc", "chain">>)})
                                    IN  [pharmacy_data |-> pharmacy, claims_data |-> claims,
                                         out |-> IF ndcs = <<>> THEN Raised("AttributeError")
                                                 ELSE Returns([k \in 1..Len(ndcs) |->
                                                        TopChainsOf(merged, ndcs[k][1])])]

calculate_top_chains(pharmacy_data, claims_tbl, written) ==
    LET r == top_chains(pharmacy_data, claims_tbl)
    IN  [pharmacy_data |-> r.pharmacy_data, claims_data |-> r.claims_data, out |-> r.out,
         fs |-> IF r.out.error = "none"
                THEN save_file(written, List(r.out.ret), TopChainsFile)
                ELSE written]

---------------------------------------------------------------------------
(* The directory loader, one file at a time: what a directory can hold *)

MaxFiles == 2
MaxRows == 2

SeqsUpTo(S, n) == UNION {[1..k -> S] : k \in 0..n}

\* rows as the readers deliver them; the last field of a dataset's column sets
\* is the column a structurally wrong file lacks
PharmacyRowsIn ==
    {[chain |-> Str_(1), npi |-> Int_(1)],
     [chain |-> NaN, npi |-> Int_(2)]}

ClaimRow(id, ndc, npi, quantity, price, timestamp) ==
    [id |-> id, ndc |-> ndc, npi |-> npi, quantity |-> quantity, price |-> price,
     timestamp |-> timestamp]

ClaimRowsIn ==
    {ClaimRow(Str_(1), Str_(1), Str_(1), Int_(10), Int_(5), Str_(1)),
     ClaimRow(Str_(2), Str_(1), Int_(1), Int_(10), Int_(5), NaN)}

RevertRow(id, claim_id, timestamp) ==
    [id |-> id, claim_id |-> claim_id, timestamp |-> timestamp]

RevertRowsIn ==
    {RevertRow(Str_(1), Str_(1), Str_(1)),
     RevertRow(Str_(2), NaN, Str_(1))}

RowsIn(f) ==
    CASE f.name = "pharmacies" -> PharmacyRowsIn
      [] f.name = "claims" -> ClaimRowsIn
      [] OTHER -> RevertRowsIn

\* the column sets of a dataset's files: the required ones, or with one missing
ColumnSets(f) ==
    {f.required_columns,
     f.required_columns \ {IF f.name = "reverts" THEN "claim_id" ELSE "npi"}}

\* the readers' type inference: a column holding an int holds no missing value
\* and no float, unless it is an object column (it also holds a string)
DtypesOk(cols, rws) ==
    \A c \in cols :
        LET tags == {rws[i][c][1] : i \in 1..Len(rws)}
        IN  ("int" \in tags /\ tags \cap {"nan", "float"} # {}) => "str" \in tags

Restrict(row, cols) == [c \in cols |-> row[c]]

FramesIn(f, rowsIn, maxRows) ==
    {Parsed(cols, [i \in 1..Len(rws) |-> Restrict(rws[i], cols)]) :
        <<cols, rws>> \in {x \in ColumnSets(f) \X SeqsUpTo(rowsIn, maxRows) :
                              DtypesOk(x[1], x[2])}}

\* a file with another extension, a file the reader fails on, a parsed file
FilesIn(f, rowsIn, maxRows) ==
    {File("txt", ParseError), File(f.file_type, ParseError)}
        \cup {File(f.file_type, d) : d \in FramesIn(f, rowsIn, maxRows)}

NoCalls == [a \in {"perform_analysis", "calculate_top_chains",
                   "calculate_top_prescribed_quantities"} |-> <<>>]

NoDirs == [d \in {"pharmacies", "claims", "reverts"} |-> <<>>]

InitLoad ==
    /\ pc = "process_folder"
    /\ folder \in Folders
    /\ listing \in SeqsUpTo(FilesIn(folder, RowsIn(folder), MaxRows), MaxFiles)
    /\ dirs = [NoDirs EXCEPT ![folder.name] = listing]
    /\ loaded = NotLoaded
    /\ valid_dataframes = <<>>
    /\ invalid_dataframes = <<>>
    /\ fs = NoFiles
    /\ company_data = None
    /\ claims_data = None
    /\ revert_data = None
    /\ invalid_claims = None
    /\ calls = NoCalls
    /\ error = "none"

\* one iteration of process_folder's loop
LoadFile ==
    /\ pc = "process_folder"
    /\ listing # <<>>
    /\ LET s == LoadStep(Head(listing), folder, valid_dataframes, invalid_dataframes)
       IN  /\ loaded' = s.loaded
           /\ valid_dataframes' = s.valid_dataframes
           /\ invalid_dataframes' = s.invalid_dataframes
    /\ listing' = Tail(listing)
    /\ UNCHANGED <<pc, folder, fs, dirs, company_data, claims_data, revert_data,
                   invalid_claims, calls, error>>

\* the end of process_folder: the tables are combined, the invalid one is handed
\* to save_file, the valid one is returned to the caller
ReturnFolder ==
    /\ pc = "process_folder"
    /\ listing = <<>>
    /\ pc' = "returned"
    /\ fs' = save_file(fs, Combine(invalid_dataframes), folder.invalid_file_name)
    /\ company_data' = IF folder.name = "pharmacies" THEN Combine(valid_dataframes)
                       ELSE company_data
    /\ claims_data' = IF folder.name = "claims" THEN Combine(valid_dataframes)
                      ELSE claims_data
    /\ revert_data' = IF folder.name = "reverts" THEN Combine(valid_dataframes)
                      ELSE revert_data
    /\ UNCHANGED <<folder, listing, loaded, valid_dataframes, invalid_dataframes, dirs,
                   invalid_claims, calls, error>>

NextLoad == LoadFile \/ ReturnFolder

SpecLoad == InitLoad /\ [][NextLoad]_vars

---------------------------------------------------------------------------
(* C1, C2: the validator and the loader *)

\* the file of the last loop iteration was read into a table
LoadedBatch == ~loaded.skipped /\ loaded.file.content.kind = "DataFrame"

\* the rows of a returned part, a missing part counting as empty
PartIndex(part) == IF part.kind = "None" THEN {} ELSE IndexSet(part)
PartLen(part) == IF part.kind = "None" THEN 0 ELSE Len(part.rows)

\* the part's rows are the batch's rows of the same labels, in the batch's order
SameRows(part, B) ==
    part.kind = "None" \/
        /\ \A k \in 1..Len(part.rows) :
              /\ part.index[k] + 1 \in 1..Len(B.rows)
              /\ part.rows[k] = B.rows[part.index[k] + 1]
        /\ \A k \in 1..Len(part.rows), l \in 1..Len(part.rows) :
              k < l => part.index[k] < part.index[l]

\* C1: the pair (valid, invalid) returned by load_and_validate_csv/json for a
\* parsed batch B is a partition of B's rows by row label: no label is in both
\* parts, every label of B is in one of them, the parts hold B's rows unchanged,
\* and when the required columns are all present a row is in the valid part
\* exactly when every required field of it is non-null.
C1_ValidatePartition ==
    LoadedBatch =>
        LET B == loaded.file.content
            R == folder.required_columns
            valid == loaded.ret[1]
            invalid == loaded.ret[2]
        IN  /\ invalid.kind # "None"
            /\ PartIndex(valid) \cap PartIndex(invalid) = {}
            /\ PartIndex(valid) \cup PartIndex(invalid) = IndexSet(B)
            /\ PartLen(valid) + PartLen(invalid) = Len(B.rows)
            /\ SameRows(valid, B) /\ SameRows(invalid, B)
            /\ R \subseteq B.columns =>
                  \A i \in 1..Len(B.rows) :
                      B.index[i] \in PartIndex(valid)
                          <=> \A c \in R : ~isna(B.rows[i][c])

\* a batch with all required columns was split into a non-empty valid part and
\* a non-empty invalid part
C1_Witness ==
    /\ LoadedBatch
    /\ folder.required_columns \subseteq loaded.file.content.columns
    /\ PartLen(loaded.ret[1]) > 0
    /\ PartLen(loaded.ret[2]) > 0

\* a file of the running folder that was read and lacks a required column
Rejected(file) ==
    /\ file.ext = folder.file_type
    /\ file.content.kind = "DataFrame"
    /\ ~(folder.required_columns \subseteq file.content.columns)

\* a file of the running folder that was read and has every required column
Accepted(file) ==
    /\ file.ext = folder.file_type
    /\ file.content.kind = "DataFrame"
    /\ folder.required_columns \subseteq file.content.columns

NonNullRows(file) ==
    {i \in 1..Len(file.content.rows) :
        \A c \in folder.required_columns : ~isna(file.content.rows[i][c])}

RECURSIVE SumOver(_, _)
\* the sum of n[i] over the positions i of a sequence n of numbers
SumOver(n, i) == IF i > Len(n) THEN 0 ELSE n[i] + SumOver(n, i + 1)

\* the table process_folder returned to the caller
Returned ==
    CASE folder.name = "pharmacies" -> company_data
      [] folder.name = "claims" -> claims_data
      [] OTHER -> revert_data

\* C2: a file whose columns lack a required field gives no row to the valid
\* table process_folder returns (the table has exactly the non-null rows of
\* the files that have every required column), and its whole table, all rows,
\* is among the invalid frames accumulated for the directory.
C2_WholeFileRejected ==
    pc = "returned" =>
        LET files == dirs[folder.name]
        IN  /\ Len(Returned.rows) =
                  SumOver([k \in 1..Len(files) |->
                              IF Accepted(files[k])
                              THEN Cardinality(NonNullRows(files[k])) ELSE 0], 1)
            /\ \A k \in 1..Len(files) :
                  Rejected(files[k]) =>
                      \E j \in 1..Len(invalid_dataframes) :
                          invalid_dataframes[j] = files[k].content
            /\ Len(Combine(invalid_dataframes).rows) =
                  SumOver([k \in 1..Len(files) |->
                              IF Rejected(files[k]) THEN Len(files[k].content.rows)
                              ELSE IF Accepted(files[k])
                              THEN Len(files[k].content.rows)
                                      - Cardinality(NonNullRows(files[k]))
                              ELSE 0], 1)

\* a directory with a rejected file holding a row without nulls, beside an
\* accepted file with a valid row
C2_Witness ==
    /\ pc = "returned"
    /\ \E k, l \in 1..Len(dirs[folder.name]) :
          LET file == dirs[folder.name][k]
              other == dirs[folder.name][l]
          IN  /\ Rejected(file)
              /\ \E i \in 1..Len(file.content.rows) :
                    \A c \in file.content.columns : ~isna(file.content.rows[i][c])
              /\ Accepted(other)
              /\ NonNullRows(other) # {}
    /\ Len(Returned.rows) > 0

---------------------------------------------------------------------------
(* The three analyses, called on the tables a caller holds *)

\* the call of perform_analysis(company_data, claims_data, revert_data)
PerformAnalysisCall ==
    LET r == perform_analysis(company_data, claims_data, revert_data, fs)
    IN  /\ calls' = [calls EXCEPT !["perform_analysis"] =
                        <<[pharmacy_data |-> company_data, claims_data |-> claims_data,
                           rollbacks_data |-> revert_data, out |-> r.out]>>]
        /\ fs' = r.fs
        /\ error' = r.out.error
        /\ UNCHANGED <<company_data, claims_data, revert_data>>

\* the call of calculate_top_chains(company_data, claims_data)
TopChainsCall ==
    LET r == calculate_top_chains(company_data, claims_data, fs)
    IN  /\ calls' = [calls EXCEPT !["calculate_top_chains"] =
                        <<[pharmacy_data |-> company_data, claims_data |-> claims_data,
                           out |-> r.out]>>]
        /\ company_data' = r.pharmacy_data
        /\ claims_data' = r.claims_data
        /\ fs' = r.fs
        /\ error' = r.out.error
        /\ UNCHANGED revert_data

\* the call of calculate_top_prescribed_quantities(claims_data)
TopQuantitiesCall ==
    LET r == calculate_top_prescribed_quantities(claims_data, fs)
    IN  /\ calls' = [calls EXCEPT !["calculate_top_prescribed_quantities"] =
                        <<[claims_data |-> claims_data, out |-> r.out]>>]
        /\ claims_data' = r.claims_data
        /\ fs' = r.fs
        /\ error' = r.out.error
        /\ UNCHANGED <<company_data, revert_data>>

MaxAnalysisClaims == 2
MaxAnalysisPharmacies == 2
MaxAnalysisReverts == 1

Claim(id, ndc, npi, quantity, price) ==
    ClaimRow(Str_(id), Str_(ndc), npi, Int_(quantity), Int_(price), Str_(1))

\* validated claims: an npi is a string or, written as a number in the JSON, an int
AnalysisClaimRows ==
    {Claim(1, 1, Str_(1), 10, 1),
     Claim(2, 1, Str_(1), 20, 3),
     Claim(2, 2, Int_(1), 10, 3),
     Claim(1, 1, Str_(2), 20, 3)}

\* validated pharmacies, as read_csv types them
AnalysisPharmacyRows ==
    {[chain |-> Str_(1), npi |-> Int_(1)],
     [chain |-> Str_(2), npi |-> Int_(2)]}

\* a reversal of claim 1: unmatched when the claims hold no claim 1
AnalysisRevertRows == {RevertRow(Str_(1), Str_(1), Str_(1))}

Tables(cols, rowsIn, maxRows) == {Parsed(cols, rws) : rws \in SeqsUpTo(rowsIn, maxRows)}

\* the tables process_datasets can return: the pharmacy and the claims table
\* have their columns, the reversals table has none when no file was accepted
InitAnalysis ==
    /\ pc = "analyses"
    /\ company_data \in Tables({"chain", "npi"}, AnalysisPharmacyRows, MaxAnalysisPharmacies)
    /\ claims_data \in Tables(ClaimColumns, AnalysisClaimRows, MaxAnalysisClaims)
    /\ revert_data \in Tables({"id", "claim_id", "timestamp"}, AnalysisRevertRows,
                              MaxAnalysisReverts) \cup {EmptyDataFrame}
    /\ folder = PharmaciesFolder
    /\ listing = <<>>
    /\ dirs = NoDirs
    /\ loaded = NotLoaded
    /\ valid_dataframes = <<>>
    /\ invalid_dataframes = <<>>
    /\ fs = NoFiles
    /\ invalid_claims = None
    /\ calls = NoCalls
    /\ error = "none"

FrameUnchanged == UNCHANGED <<pc, folder, listing, loaded, valid_dataframes,
                              invalid_dataframes, dirs, invalid_claims>>

\* a caller runs the analyses it has not run yet, in the order it likes,
\* until one raises
AnalysePerform ==
    /\ pc = "analyses" /\ error = "none" /\ calls["perform_analysis"] = <<>>
    /\ PerformAnalysisCall
    /\ FrameUnchanged

AnalyseTopChains ==
    /\ pc = "analyses" /\ error = "none" /\ calls["calculate_top_chains"] = <<>>
    /\ TopChainsCall
    /\ FrameUnchanged

AnalyseTopQuantities ==
    /\ pc = "analyses" /\ error = "none"
    /\ calls["calculate_top_prescribed_quantities"] = <<>>
    /\ TopQuantitiesCall
    /\ FrameUnchanged

NextAnalysis == AnalysePerform \/ AnalyseTopChains \/ AnalyseTopQuantities

SpecAnalysis == InitAnalysis /\ [][NextAnalysis]_vars

---------------------------------------------------------------------------
(* C4: the summary aggregation *)

RECURSIVE SumFn(_)
\* the sum of the values of a function with a finite domain
SumFn(f) ==
    IF DOMAIN f = {} THEN 0
    ELSE LET x == CHOOSE x \in DOMAIN f : TRUE
         IN  f[x] + SumFn([y \in DOMAIN f \ {x} |-> f[y]])

\* the rows of the left join of claims to reversals whose claim has the key:
\* <<i, j>> for claim i and a reversal j of it, <<i, 0>> for a claim without
JoinedPairs(claims, reversals, key) ==
    {x \in (1..Len(claims)) \X (0..Len(reversals)) :
        /\ <<claims[x[1]].npi, claims[x[1]].ndc>> = key
        /\ IF x[2] = 0
           THEN \A j \in 1..Len(reversals) : reversals[j].claim_id # claims[x[1]].id
           ELSE reversals[x[2]].claim_id = claims[x[1]].id}

\* what the claim says of a call of perform_analysis that has returned `ret'
AggregatesAsJoined(claims, reversals, ret) ==
    LET keys == {<<claims[i].npi, claims[i].ndc>> : i \in 1..Len(claims)}
    IN  /\ Len(ret) = Cardinality(keys)
        /\ {<<ret[k].npi, ret[k].ndc>> : k \in 1..Len(ret)} = keys
        /\ \A k \in 1..Len(ret) :
              LET J == JoinedPairs(claims, reversals, <<ret[k].npi, ret[k].ndc>>)
              IN  /\ ret[k].fills[2] = SumFn([x \in J |-> claims[x[1]].quantity[2]])
                  /\ ret[k].reverted = Cardinality({x \in J : x[2] # 0})
                  /\ ret[k].total_price[2] =
                        SumFn([x \in J |-> claims[x[1]].price[2] * claims[x[1]].quantity[2]])
                  /\ ret[k].avg_price[1] * Cardinality(J) =
                        ret[k].avg_price[2] * SumFn([x \in J |-> claims[x[1]].price[2]])

\* C4: perform_analysis, given three tables (none of them None), returns one
\* AggregateRow per distinct (npi, ndc) of the claims, and each row's fills,
\* reverted, total_price and avg_price are the sum of quantity, the number of
\* matched reversals, the sum of price times quantity and the mean price over
\* the rows of the left join of its claims to the reversals.
C4_AggregatePerKey ==
    calls["perform_analysis"] # <<>> =>
        LET c == calls["perform_analysis"][1]
        IN  /\ c.out.error = "none"
            /\ AggregatesAsJoined(c.claims_data.rows, c.rollbacks_data.rows, c.out.ret)

\* the same for a reversals table that has its claim_id column: holds
AggregatePerKeyWithColumns ==
    (calls["perform_analysis"] # <<>>
        /\ "claim_id" \in calls["perform_analysis"][1].rollbacks_data.columns) =>
        LET c == calls["perform_analysis"][1]
        IN  /\ c.out.error = "none"
            /\ AggregatesAsJoined(c.claims_data.rows, c.rollbacks_data.rows, c.out.ret)

---------------------------------------------------------------------------
(* C6: the top chains *)

\* the pairs <<claim i, pharmacy j>> of the inner join on the npi as a string
ChainPairs(claims, pharmacies) ==
    {x \in (1..Len(claims)) \X (1..Len(pharmacies)) :
        AsStr(claims[x[1]].npi) = AsStr(pharmacies[x[2]].npi)}

\* what the claim says of a call of calculate_top_chains that has returned `ret'
TopChainsAsJoined(claims, pharmacies, ret) ==
    LET P == ChainPairs(claims, pharmacies)
        ndcs == {AsStr(claims[x[1]].ndc) : x \in P}
        Of(ndc, chain) == {x \in P : /\ AsStr(claims[x[1]].ndc) = ndc
                                     /\ pharmacies[x[2]].chain = chain}
        Avg(ndc, chain) == <<SumFn([x \in Of(ndc, chain) |-> claims[x[1]].price[2]]),
                             Cardinality(Of(ndc, chain))>>
        chains(ndc) == {pharmacies[x[2]].chain : x \in {y \in P :
                                                     AsStr(claims[y[1]].ndc) = ndc}}
    IN  /\ Len(ret) = Cardinality(ndcs)
        /\ {ret[k].ndc : k \in 1..Len(ret)} = ndcs
        /\ \A k \in 1..Len(ret) :
              LET e == ret[k].chain
                  listed == {e[i].name : i \in 1..Len(e)}
              IN  /\ Len(e) <= TopChainsN
                  /\ listed \subseteq chains(ret[k].ndc)
                  /\ \A i \in 1..Len(e) :
                        /\ ~RatioGreater(e[i].avg_price, Avg(ret[k].ndc, e[i].name))
                        /\ ~RatioGreater(Avg(ret[k].ndc, e[i].name), e[i].avg_price)
                  /\ \A i \in 1..(Len(e) - 1) :
                        ~RatioGreater(e[i + 1].avg_price, e[i].avg_price)
                  /\ \A x \in chains(ret[k].ndc) \ listed : \A i \in 1..Len(e) :
                        ~RatioGreater(Avg(ret[k].ndc, x), e[i].avg_price)

\* C6: calculate_top_chains returns one entry per distinct ndc of the claims
\* whose npi matches a pharmacy (none for claims without a matching pharmacy),
\* each with at most 2 chains that have a joined claim for the ndc, by
\* non-increasing mean price of the joined rows, and no omitted chain has a
\* strictly greater mean price than a listed one.
C6_TopChainsPerNdc ==
    calls["calculate_top_chains"] # <<>> =>
        LET c == calls["calculate_top_chains"][1]
        IN  /\ c.out.error = "none"
            /\ TopChainsAsJoined(c.claims_data.rows, c.pharmacy_data.rows, c.out.ret)

\* the same for a call that returned: holds
TopChainsPerNdcWhenReturned ==
    (calls["calculate_top_chains"] # <<>>
        /\ calls["calculate_top_chains"][1].out.error = "none") =>
        LET c == calls["calculate_top_chains"][1]
        IN  TopChainsAsJoined(c.claims_data.rows, c.pharmacy_data.rows, c.out.ret)

\* a call of calculate_top_chains raises exactly when no claim matches a pharmacy
TopChainsRaisesOnEmptyJoin ==
    calls["calculate_top_chains"] # <<>> =>
        LET c == calls["calculate_top_chains"][1]
        IN  c.out.error # "none"
                <=> ChainPairs(c.claims_data.rows, c.pharmacy_data.rows) = {}

---------------------------------------------------------------------------
(* C9: the analyses and the caller's tables *)

\* C9: no analysis changes the tables it is given: across every call the
\* caller's pharmacy and claims tables keep their rows, columns and values,
\* the types of the npi, ndc and quantity values included.
C9_TablesUnchanged ==
    [][company_data' = company_data /\ claims_data' = claims_data]_vars

---------------------------------------------------------------------------
(* C5: the top prescribed quantities, on claims with up to five quantities *)

MaxTopQClaims == 5

TopQClaimRows ==
    {Claim(1, 1, Str_(1), q, 1) : q \in {10, 20, 30, 40, 50}}
        \cup {Claim(1, 1, Int_(1), 10, 1), Claim(1, 1, Str_(2), 10, 1)}

InitTopQ ==
    /\ pc = "analyses"
    /\ company_data = Parsed({"chain", "npi"}, <<>>)
    /\ claims_data \in Tables(ClaimColumns, TopQClaimRows, MaxTopQClaims)
    /\ revert_data = Parsed({"id", "claim_id", "timestamp"}, <<>>)
    /\ folder = PharmaciesFolder
    /\ listing = <<>>
    /\ dirs = NoDirs
    /\ loaded = NotLoaded
    /\ valid_dataframes = <<>>
    /\ invalid_dataframes = <<>>
    /\ fs = NoFiles
    /\ invalid_claims = None
    /\ calls = NoCalls
    /\ error = "none"

NextTopQ == AnalyseTopQuantities

SpecTopQ == InitTopQ /\ [][NextTopQ]_vars

\* the quantities, as floats, of the claims of an npi (as a string), in row order
QuantitiesOf(claims, npi) ==
    LET pos == SelectPositions([i \in 1..Len(claims) |-> AsStr(claims[i].npi) = npi],
                               1, Len(claims))
    IN  [k \in 1..Len(pos) |-> AsFloat(claims[pos[k]].quantity)]

FirstIndex(s, x) == CHOOSE i \in 1..Len(s) : s[i] = x /\ \A j \in 1..(i - 1) : s[j] # x

\* C5: calculate_top_prescribed_quantities returns one entry per distinct npi
\* of the claims, and each entry lists at most 4 quantities, all of them
\* quantities of that npi's claims, none twice, by non-increasing number of
\* occurrences, quantities occurring equally often in the order they first
\* occur among the npi's claims, and no omitted quantity occurs more often
\* than a listed one.
C5_TopQuantitiesPerNpi ==
    calls["calculate_top_prescribed_quantities"] # <<>> =>
        LET c == calls["calculate_top_prescribed_quantities"][1]
            claims == c.claims_data.rows
            ret == c.out.ret
            npis == {AsStr(claims[i].npi) : i \in 1..Len(claims)}
        IN  /\ c.out.error = "none"
            /\ Len(ret) = Cardinality(npis)
            /\ {ret[k].id : k \in 1..Len(ret)} = npis
            /\ \A k \in 1..Len(ret) :
                  LET L == ret[k].most_prescribed_quantity
                      Q == QuantitiesOf(claims, ret[k].id)
                      occurring == {Q[i] : i \in 1..Len(Q)}
                      listed == {L[i] : i \in 1..Len(L)}
                  IN  /\ Len(L) <= TopQuantitiesN
                      /\ listed \subseteq occurring
                      /\ Cardinality(listed) = Len(L)
                      /\ \A i \in 1..(Len(L) - 1) :
                            \/ Count(Q, L[i]) > Count(Q, L[i + 1])
                            \/ /\ Count(Q, L[i]) = Count(Q, L[i + 1])
                               /\ FirstIndex(Q, L[i]) < FirstIndex(Q, L[i + 1])
                      /\ \A q \in occurring \ listed : \A i \in 1..Len(L) :
                            Count(Q, q) <= Count(Q, L[i])

\* the call returned for an npi with five quantities: four are listed, one is
\* omitted, and two listed ones occur equally often
C5_Witness ==
    /\ calls["calculate_top_prescribed_quantities"] # <<>>
    /\ LET c == calls["calculate_top_prescribed_quantities"][1]
       IN  /\ c.out.error = "none"
           /\ \E k \in 1..Len(c.out.ret) :
                 LET L == c.out.ret[k].most_prescribed_quantity
                     Q == QuantitiesOf(c.claims_data.rows, c.out.ret[k].id)
                 IN  /\ Len(L) = TopQuantitiesN
                     /\ \E i \in 1..Len(Q) : \A j \in 1..Len(L) : L[j] # Q[i]
                     /\ \E i, j \in 1..Len(L) : i # j /\ Count(Q, L[i]) = Count(Q, L[j])

---------------------------------------------------------------------------
(* C10: the analyses and the order of the rows *)

\* the table with its rows in the order p[1], p[2], ...
Permute(data, p) ==
    [data EXCEPT !.rows = [i \in 1..Len(data.rows) |-> data.rows[p[i]]],
                 !.index = [i \in 1..Len(data.rows) |-> data.index[p[i]]]]

Reorderings(data) == {Permute(data, p) : p \in Permutations(1..Len(data.rows))}

Elements(s) == {s[i] : i \in 1..Len(s)}

\* two outcomes raise the same, or return the same rows or entries in some order
SameSet(a, b) == a.error = b.error /\ Elements(a.ret) = Elements(b.ret)

\* perform_analysis gives the same set of rows for the claims or the reversals
\* reordered (it reads no row of the pharmacy table)
AggregatesOrderFree ==
    calls["perform_analysis"] # <<>> =>
        LET c == calls["perform_analysis"][1]
        IN  /\ \A t \in Reorderings(c.claims_data) :
                  SameSet(perform_analysis_rows(c.pharmacy_data, t, c.rollbacks_data), c.out)
            /\ \A t \in Reorderings(c.rollbacks_data) :
                  SameSet(perform_analysis_rows(c.pharmacy_data, c.claims_data, t), c.out)

\* calculate_top_chains gives the same entries for the tables reordered
TopChainsOrderFree ==
    calls["calculate_top_chains"] # <<>> =>
        LET c == calls["calculate_top_chains"][1]
        IN  /\ \A t \in Reorderings(c.claims_data) :
                  SameSet(top_chains(c.pharmacy_data, t).out, c.out)
            /\ \A t \in Reorderings(c.pharmacy_data) :
                  SameSet(top_chains(t, c.claims_data).out, c.out)

\* calculate_top_prescribed_quantities gives the same entries for the claims reordered
TopQuantitiesOrderFree ==
    calls["calculate_top_prescribed_quantities"] # <<>> =>
        LET c == calls["calculate_top_prescribed_quantities"][1]
        IN  \A t \in Reorderings(c.claims_data) :
                SameSet(top_prescribed_quantities(t).out, c.out)

\* no two distinct quantities of the sequence occur equally often
NoTies(Q) ==
    \A i, j \in 1..Len(Q) : Q[i] # Q[j] => Count(Q, Q[i]) # Count(Q, Q[j])

\* calculate_top_prescribed_quantities, for the claims reordered, gives entries
\* for the same npis, with lists of the same length whose k-th quantities
\* occur equally often, and the same list for an npi without ties
TopQuantitiesOrderFreeUpToTies ==
    calls["calculate_top_prescribed_quantities"] # <<>> =>
        LET c == calls["calculate_top_prescribed_quantities"][1]
        IN  \A t \in Reorderings(c.claims_data) :
                LET o == top_prescribed_quantities(t).out
                IN  /\ o.error = c.out.error
                    /\ Len(o.ret) = Len(c.out.ret)
                    /\ \A k \in 1..Len(o.ret) :
                          LET L == c.out.ret[k].most_prescribed_quantity
                              M == o.ret[k].most_prescribed_quantity
                              Q == QuantitiesOf(c.claims_data.rows, c.out.ret[k].id)
                          IN  /\ o.ret[k].id = c.out.ret[k].id
                              /\ Len(M) = Len(L)
                              /\ \A i \in 1..Len(L) : Count(Q, M[i]) = Count(Q, L[i])
                              /\ NoTies(Q) => M = L

---------------------------------------------------------------------------
(* process_datasets and run() *)

MaxRunFiles == 1
MaxRunRows == 2

\* pharmacies as read_csv types them: an npi column without a missing value is
\* an int column, one with a missing value a float column
RunPharmacyRows ==
    {[chain |-> Str_(1), npi |-> Int_(1)],
     [chain |-> NaN, npi |-> Int_(2)],
     [chain |-> Str_(1), npi |-> Float_(1)],
     [chain |-> Str_(1), npi |-> NaN]}

\* claims of pharmacy 1, its npi written as a string or as a number, a claim of
\* an unknown pharmacy 9, a claim without timestamp
RunClaimRows ==
    {ClaimRow(Str_(1), Str_(1), Str_(1), Int_(10), Int_(5), Str_(1)),
     ClaimRow(Str_(2), Str_(1), Int_(1), Int_(10), Int_(5), Str_(1)),
     ClaimRow(Str_(3), Str_(1), Str_(9), Int_(10), Int_(5), Str_(1)),
     ClaimRow(Str_(4), Str_(1), Str_(1), Int_(10), Int_(5), NaN)}

RunRevertRows ==
    {RevertRow(Str_(1), Str_(1), Str_(1)),
     RevertRow(Str_(2), NaN, Str_(1))}

RunRowsIn(f) ==
    CASE f.name = "pharmacies" -> RunPharmacyRows
      [] f.name = "claims" -> RunClaimRows
      [] OTHER -> RunRevertRows

Listings(f) == SeqsUpTo(FilesIn(f, RunRowsIn(f), MaxRunRows), MaxRunFiles)

InitRun ==
    /\ pc = "process_company"
    /\ dirs \in [pharmacies : Listings(PharmaciesFolder), claims : Listings(ClaimsFolder),
                 reverts : Listings(RevertsFolder)]
    /\ folder = PharmaciesFolder
    /\ listing = <<>>
    /\ loaded = NotLoaded
    /\ valid_dataframes = <<>>
    /\ invalid_dataframes = <<>>
    /\ fs = NoFiles
    /\ company_data = None
    /\ claims_data = None
    /\ revert_data = None
    /\ invalid_claims = None
    /\ calls = NoCalls
    /\ error = "none"

\* a whole process_folder call on directory f.name: the lists it built, the
\* files it left, the table it returned
FolderCall(f) ==
    LET s == LoadAll(dirs[f.name], f, <<>>, <<>>)
    IN  /\ folder' = f
        /\ valid_dataframes' = s.valid_dataframes
        /\ invalid_dataframes' = s.invalid_dataframes
        /\ fs' = process_folder(dirs[f.name], f, fs).fs
        /\ UNCHANGED <<listing, loaded, dirs, invalid_claims, calls, error>>

\* company_data = self.process_folder(self.company_dir, ...)
ProcessCompany ==
    /\ pc = "process_company"
    /\ FolderCall(PharmaciesFolder)
    /\ company_data' = process_folder(dirs.pharmacies, PharmaciesFolder, fs).valid_data
    /\ pc' = "process_claims"
    /\ UNCHANGED <<claims_data, revert_data>>

\* claims_data = self.process_folder(self.claims_dir, ...)
ProcessClaims ==
    /\ pc = "process_claims"
    /\ FolderCall(ClaimsFolder)
    /\ claims_data' = process_folder(dirs.claims, ClaimsFolder, fs).valid_data
    /\ pc' = "filter_claims"
    /\ UNCHANGED <<company_data, revert_data>>

\* Series.isin(values) on one cell: an int is no member of a set of strings
isin(c, values) == c \in values

\* lines 148-150: the claims whose npi, as a string, is a pharmacy npi, and the
\* claims whose npi, as it is, is not
FilterByNpi(company, claims) ==
    LET valid_npi_set == {AsStr(company.rows[i].npi) : i \in 1..Len(company.rows)}
    IN  [valid_claims |->
             BoolIndex(claims, [i \in 1..Len(claims.rows) |->
                 isin(AsStr(claims.rows[i].npi), valid_npi_set)]),
         invalid_claims |->
             BoolIndex(claims, [i \in 1..Len(claims.rows) |->
                 ~isin(claims.rows[i].npi, valid_npi_set)])]

\* invalid_claims.to_json(invalid_claims_path, orient="records", lines=True)
to_json(files, data, file_path) == [files EXCEPT ![file_path] = Append(@, data.rows)]

\* lines 147-154 of process_datasets: KeyError for a table without an npi
\* column, else the two parts, the second one written
FilterClaims ==
    /\ pc = "filter_claims"
    /\ IF "npi" \notin company_data.columns \/ "npi" \notin claims_data.columns
       THEN /\ error' = "KeyError"
            /\ pc' = "raised"
            /\ UNCHANGED <<claims_data, invalid_claims, fs>>
       ELSE LET r == FilterByNpi(company_data, claims_data)
            IN  /\ claims_data' = r.valid_claims
                /\ invalid_claims' = r.invalid_claims
                /\ fs' = to_json(fs, r.invalid_claims, InvalidClaimsPath)
                /\ pc' = "process_rollback"
                /\ error' = "none"
    /\ UNCHANGED <<folder, listing, loaded, valid_dataframes, invalid_dataframes, dirs,
                   company_data, revert_data, calls>>

\* reverts_data = self.process_folder(self.rollback_dir, ...), and the return
ProcessRollback ==
    /\ pc = "process_rollback"
    /\ FolderCall(RevertsFolder)
    /\ revert_data' = process_folder(dirs.reverts, RevertsFolder, fs).valid_data
    /\ pc' = "perform_analysis"
    /\ UNCHANGED <<company_data, claims_data>>

\* self.perform_analysis(company_data, claims_data, revert_data)
RunPerformAnalysis ==
    /\ pc = "perform_analysis"
    /\ PerformAnalysisCall
    /\ pc' = IF error' = "none" THEN "calculate_top_chains" ELSE "raised"
    /\ UNCHANGED <<folder, listing, loaded, valid_dataframes, invalid_dataframes, dirs,
                   invalid_claims>>

\* self.calculate_top_chains(company_data, claims_data)
RunTopChains ==
    /\ pc = "calculate_top_chains"
    /\ TopChainsCall
    /\ pc' = IF error' = "none" THEN "calculate_top_prescribed_quantities" ELSE "raised"
    /\ UNCHANGED <<folder, listing, loaded, valid_dataframes, invalid_dataframes, dirs,
                   invalid_claims>>

\* self.calculate_top_prescribed_quantities(claims_data)
RunTopQuantities ==
    /\ pc = "calculate_top_prescribed_quantities"
    /\ TopQuantitiesCall
    /\ pc' = IF error' = "none" THEN "done" ELSE "raised"
    /\ UNCHANGED <<folder, listing, loaded, valid_dataframes, invalid_dataframes, dirs,
                   invalid_claims>>

NextRun ==
    \/ ProcessCompany
    \/ ProcessClaims
    \/ FilterClaims
    \/ ProcessRollback
    \/ RunPerformAnalysis
    \/ RunTopChains
    \/ RunTopQuantities

SpecRun == InitRun /\ [][NextRun]_vars

---------------------------------------------------------------------------
(* The run: referential filter, empty tables, quarantine artifacts *)

\* the claims process_folder returned to process_datasets
SchemaValidClaims == Combine(valid_dataframes)

\* C3: after the referential filter every schema-valid claim is in exactly one
\* of the two parts, valid claims and orphans; it is a valid claim exactly when
\* its npi, as a string, is the npi, as a string, of a schema-valid pharmacy;
\* the orphans are what was written to the quarantine file and the valid claims
\* are what goes on to the analyses.
C3_ReferentialPartition ==
    pc = "process_rollback" =>
        LET U == SchemaValidClaims
            known == {AsStr(company_data.rows[i].npi) : i \in 1..Len(company_data.rows)}
        IN  /\ IndexSet(claims_data) \cap IndexSet(invalid_claims) = {}
            /\ IndexSet(claims_data) \cup IndexSet(invalid_claims) = IndexSet(U)
            /\ \A i \in 1..Len(U.rows) :
                  U.index[i] \in IndexSet(claims_data) <=> AsStr(U.rows[i].npi) \in known
            /\ fs[InvalidClaimsPath] = <<invalid_claims.rows>>

\* the filter as such: the valid part is chosen by the npi as a string, the
\* other part by the npi as it is, so a claim with a numeric npi of a known
\* pharmacy is in both
FilterPartsAsCoded ==
    pc = "process_rollback" =>
        LET U == SchemaValidClaims
            known == {AsStr(company_data.rows[i].npi) : i \in 1..Len(company_data.rows)}
        IN  /\ \A i \in 1..Len(U.rows) :
                  /\ U.index[i] \in IndexSet(claims_data) <=> AsStr(U.rows[i].npi) \in known
                  /\ U.index[i] \in IndexSet(invalid_claims) <=> U.rows[i].npi \notin known
            /\ fs[InvalidClaimsPath] = <<invalid_claims.rows>>

\* a claim with a numeric npi of a known pharmacy went through the filter
NumericNpiFiltered ==
    /\ pc = "process_rollback"
    /\ \E i \in 1..Len(SchemaValidClaims.rows) :
          /\ SchemaValidClaims.rows[i].npi[1] = "int"
          /\ SchemaValidClaims.index[i] \in IndexSet(claims_data)

IsEmptyTable(data) == data.kind = "DataFrame" /\ data.rows = <<>>

\* a stage of the run has produced a table without rows
AnyEmptyTable ==
    IsEmptyTable(company_data) \/ IsEmptyTable(claims_data) \/ IsEmptyTable(revert_data)

\* C7: a run in which a directory, or the filter, has produced an empty table
\* does not abort: no stage raises.
C7_NoAbortOnEmptyTable == AnyEmptyTable => pc # "raised"

\* every abort of a run is one on an empty table
RaisedOnlyOnEmptyTable == pc = "raised" => AnyEmptyTable

\* a run with no empty table comes to its end
CompleteRun ==
    /\ pc = "done"
    /\ ~AnyEmptyTable

\* the rows of directory f.name that schema validation rejects: all rows of a
\* read file lacking a required column, the rows with a null required field of
\* the other read files
RejectedRows(f) ==
    LET files == dirs[f.name]
    IN  {files[k].content.rows[i] :
            <<k, i>> \in {x \in (1..Len(files)) \X (1..MaxRunRows) :
                /\ files[x[1]].ext = f.file_type
                /\ files[x[1]].content.kind = "DataFrame"
                /\ x[2] <= Len(files[x[1]].content.rows)
                /\ \/ ~(f.required_columns \subseteq files[x[1]].content.columns)
                   \/ \E c \in f.required_columns :
                          isna(files[x[1]].content.rows[x[2]][c])}}

\* the files a dataset's rejected rows are sent to
Artifacts(f) ==
    CASE f.name = "pharmacies" -> {InvalidCompanyFile}
      [] f.name = "claims" -> {InvalidClaimsFile, InvalidClaimsPath}
      [] OTHER -> {InvalidRollbackFile}

\* a written file holds the row, whatever the number type of its cells
Holds(content, row) ==
    \E j \in 1..Len(content) :
        \A c \in DOMAIN row :
            /\ c \in DOMAIN content[j]
            /\ isna(content[j][c]) = isna(row[c])
            /\ content[j][c][2] = row[c][2]

\* C8: at the end of a run, for every dataset with a row rejected by schema
\* validation, one quarantine artifact of the dataset has been written exactly
\* once and holds every rejected row of the dataset's directory.
C8_QuarantineOncePerDataset ==
    pc = "done" =>
        \A f \in Folders :
            RejectedRows(f) # {} =>
                \E p \in Artifacts(f) :
                    /\ Len(fs[p]) = 1
                    /\ \A row \in RejectedRows(f) : Holds(fs[p][1], row)

\* what the run leaves instead: nothing at the two bare file names, one empty
\* file for the reversals, and the orphans alone in the claims file
ArtifactsAsCoded ==
    pc = "done" =>
        /\ fs[InvalidCompanyFile] = <<>>
        /\ fs[InvalidClaimsFile] = <<>>
        /\ fs[InvalidRollbackFile] = << <<>> >>
        /\ fs[InvalidClaimsPath] = <<invalid_claims.rows>>

=============================================================================
